---- MODULE Spec2Model ----
(***************************************************************************)
(* Model of the ERA Padel League data utilities:                           *)
(*   scripts/manage_matches.py  (update_match, add_match, parse_sets,      *)
(*                               sets_to_string)                           *)
(*   scripts/update_match.py    (update_match)                             *)
(*   scripts/build_data.py      (build_payload, main)                      *)
(*                                                                         *)
(* YAML mappings are functions from key strings to values; an optional key *)
(* is a key that is or is not in the DOMAIN.  A Python argument that may   *)
(* be None is a sequence of length 0 (None) or 1 (the value).              *)
(***************************************************************************)
EXTENDS Integers, Sequences, FiniteSets, TLC

VARIABLES
    group,      \* content of the group file data/divisions/gold/groups/gold-01.yml
    pc,         \* "idle": no editor process; "done": an editor call has returned
    call,       \* arguments of the editor call that has just returned
    ret,        \* its outcome: [ok, err]
    before,     \* content of the group file when that call started
    setsIn,     \* a list of set scores, as the result mapping holds it
    text,       \* a --sets string, a sequence of characters
    parsed,     \* what parse_sets made of text: the list, or the error
    stage,      \* "input", "text", "parsed": how far the string has got
    root,       \* the data root build_data.py reads: season, rules, divisions/
    output,     \* the aggregate file divisions.json
    last        \* the latest run of build_data.py and the run before it

edVars == <<group, pc, call, ret, before>>
strVars == <<setsIn, text, parsed, stage>>
buildVars == <<root, output, last>>
vars == <<edVars, strVars, buildVars>>

----------------------------------------------------------------------------
(* Python values *)

None == <<>>
Some(v) == <<v>>

\* dict.get(k): None when the key is absent
Get(d, k) == IF k \in DOMAIN d THEN Some(d[k]) ELSE None

\* dict.pop(k, None)
Pop(d, k) == [x \in (DOMAIN d) \ {k} |-> d[x]]

\* d[k] = v
Put(d, k, v) == [x \in (DOMAIN d) \cup {k} |-> IF x = k THEN v ELSE d[x]]

EmptyDict == [x \in {} |-> x]

\* truth value of an optional string argument: None and '' are falsy
Truthy(opt) == opt # None /\ opt[1] # ""

\* truth value of an optional list argument: None and [] are falsy
TruthyList(opt) == opt # None /\ opt[1] # <<>>

STATUS_CHOICES == <<"scheduled", "played", "wo">>
WINNER_CHOICES == <<"home", "away">>

Range(s) == {s[i] : i \in DOMAIN s}

----------------------------------------------------------------------------
(* Set scores as text: manage_matches.parse_sets and sets_to_string.        *)
(* A string is a sequence of one-character strings.                         *)

Digits == <<"0", "1", "2", "3", "4", "5", "6", "7", "8", "9">>
IsDigit(c) == c \in Range(Digits)
DigitValue(c) == (CHOOSE i \in DOMAIN Digits : Digits[i] = c) - 1

\* str(n) of a natural number
RECURSIVE NatToStr(_)
NatToStr(n) ==
    IF n < 10 THEN <<Digits[n + 1]>>
    ELSE NatToStr(n \div 10) \o <<Digits[(n % 10) + 1]>>

\* str(n): the f-string's rendering of an int
IntToStr(n) == IF n < 0 THEN <<"-">> \o NatToStr(0 - n) ELSE NatToStr(n)

\* sep.join(chunks)
RECURSIVE JoinStr(_, _)
JoinStr(chunks, sep) ==
    IF chunks = <<>> THEN <<>>
    ELSE IF Len(chunks) = 1 THEN chunks[1]
    ELSE chunks[1] \o <<sep>> \o JoinStr(Tail(chunks), sep)

sets_to_string(sets) ==
    IF sets = <<>> THEN <<>>
    ELSE JoinStr([i \in DOMAIN sets |->
                    IntToStr(sets[i].home) \o <<"-">> \o IntToStr(sets[i].away)], ",")

\* position of the first sep in s, 0 when there is none
FirstIndex(s, sep) ==
    IF \E i \in DOMAIN s : s[i] = sep
    THEN CHOOSE i \in DOMAIN s : s[i] = sep /\ \A j \in 1..(i - 1) : s[j] # sep
    ELSE 0

\* s.split(sep)
RECURSIVE Split(_, _)
Split(s, sep) ==
    LET i == FirstIndex(s, sep)
    IN  IF i = 0 THEN <<s>>
        ELSE <<SubSeq(s, 1, i - 1)>> \o Split(SubSeq(s, i + 1, Len(s)), sep)

\* s.strip()
RECURSIVE Strip(_)
Strip(s) ==
    IF s = <<>> THEN s
    ELSE IF s[1] = " " THEN Strip(Tail(s))
    ELSE IF s[Len(s)] = " " THEN Strip(SubSeq(s, 1, Len(s) - 1))
    ELSE s

RECURSIVE DigitsToNat(_)
DigitsToNat(s) ==
    IF s = <<>> THEN 0
    ELSE DigitsToNat(SubSeq(s, 1, Len(s) - 1)) * 10 + DigitValue(s[Len(s)])

\* int(s): blanks around, an optional sign, then digits, single underscores
\* allowed between digits
ParseInt(s) ==
    LET t == Strip(s)
        signed == t # <<>> /\ t[1] \in {"-", "+"}
        body == IF signed THEN Tail(t) ELSE t
        grouped == /\ body # <<>>
                   /\ \A i \in DOMAIN body : IsDigit(body[i]) \/ body[i] = "_"
                   /\ IsDigit(body[1]) /\ IsDigit(body[Len(body)])
                   /\ \A i \in 1..(Len(body) - 1) : ~(body[i] = "_" /\ body[i + 1] = "_")
        digits == SelectSeq(body, IsDigit)
    IN  IF ~grouped
        THEN [ok |-> FALSE, val |-> 0]
        ELSE [ok |-> TRUE,
              val |-> IF signed /\ t[1] = "-" THEN 0 - DigitsToNat(digits)
                                            ELSE DigitsToNat(digits)]

\* one token of the --sets string: skipped when blank, else a pair or an error
ParseToken(raw) ==
    LET item == Strip(raw)
        i == FirstIndex(item, "-")
        home == ParseInt(SubSeq(item, 1, i - 1))
        away == ParseInt(SubSeq(item, i + 1, Len(item)))
    IN  IF item = <<>> THEN [kind |-> "skip"]
        ELSE IF i = 0 THEN [kind |-> "error", err |-> "format", token |-> item]
        ELSE IF ~home.ok \/ ~away.ok
        THEN [kind |-> "error", err |-> "number", token |-> item]
        ELSE [kind |-> "set", set |-> [home |-> home.val, away |-> away.val]]

\* the loop over the tokens: the first error ends it
RECURSIVE ParseTokens(_, _)
ParseTokens(tokens, acc) ==
    IF tokens = <<>> THEN [ok |-> TRUE, sets |-> acc]
    ELSE LET r == ParseToken(tokens[1])
         IN  IF r.kind = "error"
             THEN [ok |-> FALSE, err |-> r.err, token |-> r.token]
             ELSE ParseTokens(Tail(tokens),
                              IF r.kind = "set" THEN Append(acc, r.set) ELSE acc)

parse_sets(value) ==
    IF value = <<>> THEN [ok |-> TRUE, sets |-> <<>>]
    ELSE ParseTokens(Split(value, ","), <<>>)

\* update_match.parse_sets: the same loop, written out a second time
um_parse_sets(value) ==
    IF value = <<>> THEN [ok |-> TRUE, sets |-> <<>>]
    ELSE ParseTokens(Split(value, ","), <<>>)

----------------------------------------------------------------------------
(* Lookup: data/divisions holds the directory gold, whose division.yml lists *)
(* two groups; the file of the first is there, the file of the second is not *)

DivisionDirs == {"gold"}
GroupFile == "groups/gold-01.yml"
MetaGroups ==
    <<[id |-> "gold-01", file |-> GroupFile],
      [id |-> "gold-02", file |-> "groups/gold-02.yml"]>>
FilesInGroupsDir == {GroupFile}

\* division_dir.exists()
division_exists(division_id) == division_id \in DivisionDirs

\* find_group_file: the listed file of the group when it exists, else the file
\* of groups/ whose document carries the id (doc is what GroupFile holds),
\* else None: MatchError
find_group_file(group_id, doc) ==
    IF \E i \in DOMAIN MetaGroups :
          MetaGroups[i].id = group_id /\ MetaGroups[i].file \in FilesInGroupsDir
    THEN Some(MetaGroups[CHOOSE i \in DOMAIN MetaGroups :
                 MetaGroups[i].id = group_id
                 /\ MetaGroups[i].file \in FilesInGroupsDir].file)
    ELSE IF Get(doc, "id") = Some(group_id) THEN Some(GroupFile)
    ELSE None

----------------------------------------------------------------------------
(* manage_matches.update_match *)

\* index of the first match whose id equals match_id, 0 when there is none
FindTarget(matches, match_id) ==
    IF \E i \in DOMAIN matches : Get(matches[i], "id") = Some(match_id)
    THEN CHOOSE i \in DOMAIN matches :
            /\ Get(matches[i], "id") = Some(match_id)
            /\ \A j \in 1..(i - 1) : Get(matches[j], "id") # Some(match_id)
    ELSE 0

\* reason handling shared by the branches: set when non-empty, removed when ''
ApplyReason(result, reason) ==
    IF reason # None
    THEN IF Truthy(reason) THEN Put(result, "reason", reason[1])
                           ELSE Pop(result, "reason")
    ELSE result

ApplyWinner(result, winner) ==
    IF Truthy(winner) THEN Put(result, "winner", winner[1]) ELSE result

ApplySets(result, sets, clear_sets) ==
    IF sets # None
    THEN IF TruthyList(sets) THEN Put(result, "sets", sets[1])
                           ELSE Pop(result, "sets")
    ELSE IF clear_sets THEN Pop(result, "sets") ELSE result

ApplyDate(target, date) ==
    IF date # None
    THEN IF Truthy(date) THEN Put(target, "date", date[1])
                         ELSE Pop(target, "date")
    ELSE target

\* a round handler that loses the away team on the way
ApplyRoundDropsAway(target, round_no) ==
    IF round_no # None THEN Pop(Put(target, "round", round_no[1]), "away") ELSE target

ApplyRound(target, round_no) ==
    IF round_no # None THEN Put(target, "round", round_no[1]) ELSE target

ApplyStatus(result, status) ==
    IF Truthy(status) THEN Put(result, "status", status[1]) ELSE result

\* result.get('status', 'scheduled')
effective_status(result) ==
    IF "status" \in DOMAIN result THEN result["status"] ELSE "scheduled"

\* a scheduled branch that forgets to drop the winner
ScheduledBranchKeepsWinner(result, a) ==
    LET r1 == Pop(result, "sets")
    IN  IF a.reason # None THEN ApplyReason(r1, a.reason) ELSE Pop(r1, "reason")

ScheduledBranch(result, a) ==
    LET r1 == Pop(Pop(result, "winner"), "sets")
    IN  IF a.reason # None THEN ApplyReason(r1, a.reason) ELSE Pop(r1, "reason")

\* a walkover branch that forgets to drop the sets
WoBranchKeepsSets(result, a) ==
    ApplyReason(ApplyWinner(result, a.winner), a.reason)

WoBranch(result, a) ==
    LET r1 == ApplyWinner(result, a.winner)
        r2 == ApplyReason(r1, a.reason)
        r3 == IF a.reason = None /\ Get(r2, "reason") = None
              THEN Pop(r2, "reason") ELSE r2
    IN  Pop(r3, "sets")

PlayedBranch(result, a) ==
    ApplyReason(ApplySets(ApplyWinner(result, a.winner), a.sets, a.clear_sets),
                a.reason)

MutateResult(result, a) ==
    LET r1 == ApplyStatus(result, a.status)
        es == effective_status(r1)
    IN  IF es = "scheduled" THEN ScheduledBranch(r1, a)
        ELSE IF es = "wo" THEN WoBranch(r1, a)
        ELSE PlayedBranch(r1, a)

\* a collision check that scans only the matches before the target
IdCollisionBeforeTarget(matches, idx, a) ==
    /\ Truthy(a.new_id)
    /\ a.new_id[1] # a.match
    /\ \E j \in DOMAIN matches : j < idx /\ Get(matches[j], "id") = a.new_id

IdCollision(matches, idx, a) ==
    /\ Truthy(a.new_id)
    /\ a.new_id[1] # a.match
    /\ \E j \in DOMAIN matches : j # idx /\ Get(matches[j], "id") = a.new_id

ApplyNewId(target, a) ==
    IF Truthy(a.new_id) /\ a.new_id[1] # a.match
    THEN Put(target, "id", a.new_id[1]) ELSE target

\* the call's outcome: ok, the error raised, and the document written
update_match(doc, a) ==
    LET matches == doc.matches
        idx == FindTarget(matches, a.match)
    IN  IF ~division_exists(a.division)
        THEN [ok |-> FALSE, err |-> "DivisionNotFound", doc |-> doc]
        ELSE IF find_group_file(a.group, doc) = None
        THEN [ok |-> FALSE, err |-> "GroupNotFound", doc |-> doc]
        ELSE IF idx = 0
        THEN [ok |-> FALSE, err |-> "MatchNotFound", doc |-> doc]
        ELSE IF IdCollision(matches, idx, a)
        THEN [ok |-> FALSE, err |-> "DuplicateId", doc |-> doc]
        ELSE LET t1 == ApplyNewId(matches[idx], a)
                 t2 == ApplyRound(ApplyDate(t1, a.date), a.round_no)
                 res == IF "result" \in DOMAIN t2 THEN t2["result"] ELSE EmptyDict
                 t3 == Put(t2, "result", MutateResult(res, a))
             IN  [ok |-> TRUE, err |-> "",
                  doc |-> [doc EXCEPT !.matches = [matches EXCEPT ![idx] = t3]]]

----------------------------------------------------------------------------
(* manage_matches.add_match *)

NewMatch(a) ==
    LET m0 == [id |-> a.match, home |-> a.home, away |-> a.away]
        m1 == IF a.round_no # None THEN Put(m0, "round", a.round_no[1]) ELSE m0
    IN  IF Truthy(a.date) THEN Put(m1, "date", a.date[1]) ELSE m1

NewResult(a) ==
    LET r0 == [status |-> a.status]
        r1 == IF a.status \in {"played", "wo"} /\ Truthy(a.winner)
              THEN Put(r0, "winner", a.winner[1]) ELSE r0
    IN  IF a.status = "played"
        THEN IF TruthyList(a.sets) THEN Put(r1, "sets", a.sets[1]) ELSE r1
        ELSE IF Truthy(a.reason) THEN Put(r1, "reason", a.reason[1]) ELSE r1

\* a duplicate check that looks at the first match only
IdExistsFirst(matches, match_id) ==
    matches # <<>> /\ Get(matches[1], "id") = Some(match_id)

\* any(m.get('id') == match_id for m in matches)
IdExists(matches, match_id) ==
    \E i \in DOMAIN matches : Get(matches[i], "id") = Some(match_id)

\* validation without the sets check
AddValidationNoSets(a) ==
    IF a.status \in {"played", "wo"} /\ ~Truthy(a.winner) THEN "WinnerRequired"
    ELSE ""

\* the MatchError raised while the result is built, "" when none is
AddValidation(a) ==
    IF a.status \in {"played", "wo"} /\ ~Truthy(a.winner) THEN "WinnerRequired"
    ELSE IF a.status = "played" /\ ~TruthyList(a.sets) THEN "SetsRequired"
    ELSE ""

\* a new match put in front of the list
PrependMatch(matches, m) == <<m>> \o matches

\* matches.append(new_match)
AppendMatch(matches, m) == Append(matches, m)

add_match(doc, a) ==
    IF a.status \notin Range(STATUS_CHOICES)
    THEN [ok |-> FALSE, err |-> "InvalidStatus", doc |-> doc]
    ELSE IF ~division_exists(a.division)
    THEN [ok |-> FALSE, err |-> "DivisionNotFound", doc |-> doc]
    ELSE IF find_group_file(a.group, doc) = None
    THEN [ok |-> FALSE, err |-> "GroupNotFound", doc |-> doc]
    ELSE IF IdExists(doc.matches, a.match)
    THEN [ok |-> FALSE, err |-> "DuplicateId", doc |-> doc]
    ELSE IF AddValidation(a) # ""
    THEN [ok |-> FALSE, err |-> AddValidation(a), doc |-> doc]
    ELSE [ok |-> TRUE, err |-> "",
          doc |-> [doc EXCEPT !.matches =
                      AppendMatch(@, Put(NewMatch(a), "result", NewResult(a)))]]

----------------------------------------------------------------------------
(* update_match.update_match: the flag-only editor, no rename *)

um_MutateResult(result, a) ==
    LET r1 == ApplyStatus(result, a.status)
    IN  IF a.status = Some("scheduled")
        THEN Pop(Pop(Pop(r1, "winner"), "sets"), "reason")
        ELSE IF a.status = Some("wo")
        THEN Pop(ApplyReason(ApplyWinner(r1, a.winner), a.reason), "sets")
        ELSE PlayedBranch(r1, a)

um_update_match(doc, a) ==
    LET matches == doc.matches
        idx == FindTarget(matches, a.match)
    IN  IF ~division_exists(a.division)
        THEN [ok |-> FALSE, err |-> "DivisionNotFound", doc |-> doc]
        ELSE IF find_group_file(a.group, doc) = None
        THEN [ok |-> FALSE, err |-> "GroupNotFound", doc |-> doc]
        ELSE IF idx = 0
        THEN [ok |-> FALSE, err |-> "MatchNotFound", doc |-> doc]
        ELSE LET t2 == ApplyRound(ApplyDate(matches[idx], a.date), a.round_no)
                 res == IF "result" \in DOMAIN t2 THEN t2["result"] ELSE EmptyDict
                 t3 == Put(t2, "result", um_MutateResult(res, a))
             IN  [ok |-> TRUE, err |-> "",
                  doc |-> [doc EXCEPT !.matches = [matches EXCEPT ![idx] = t3]]]

----------------------------------------------------------------------------
(* The entry points: manage_matches.main in flag mode and update_match.main. *)
(* argv is a record of the flags, a flag left out being None.  The outcome   *)
(* tells how the process ends: "done", "usage" (argparse's error exit),      *)
(* "reported" (the error is caught in main and printed), "traceback" (the    *)
(* exception leaves main), and whether rebuild_json is reached.              *)

Ended(exit, err, doc, rebuild) ==
    [exit |-> exit, err |-> err, doc |-> doc, rebuild |-> rebuild]

\* the keyword arguments main hands to update_match
UpdateArgsOf(a, sets) ==
    [division |-> a.division[1], group |-> a.group[1], match |-> a.match[1],
     status |-> a.status, winner |-> a.winner, sets |-> sets, date |-> a.date,
     round_no |-> a.round_no, reason |-> a.reason, clear_sets |-> a.clear_sets,
     new_id |-> a.new_id]

\* the keyword arguments main hands to add_match; status defaults to scheduled
AddArgsOf(a, sets) ==
    [division |-> a.division[1], group |-> a.group[1], match |-> a.match[1],
     home |-> a.home[1], away |-> a.away[1],
     status |-> IF Truthy(a.status) THEN a.status[1] ELSE "scheduled",
     winner |-> a.winner, sets |-> sets, date |-> a.date,
     round_no |-> a.round_no, reason |-> a.reason]

\* parse_sets(args.sets) if args.sets is not None else None
\* (p is what the editor's parse_sets makes of the text)
SetsValue(a, p) ==
    IF a.sets_text = None THEN [ok |-> TRUE, sets |-> None]
    ELSE IF p.ok THEN [ok |-> TRUE, sets |-> Some(p.sets)]
    ELSE [ok |-> FALSE, sets |-> None]

\* manage_matches.main with flags: the usage checks, then the try block whose
\* ValueError and MatchError are printed
manage_main(doc, a) ==
    LET sv == SetsValue(a, parse_sets(a.sets_text[1]))
        r == IF a.create THEN add_match(doc, AddArgsOf(a, sv.sets))
                         ELSE update_match(doc, UpdateArgsOf(a, sv.sets))
    IN  IF ~Truthy(a.division) \/ ~Truthy(a.group)
        THEN Ended("usage", "usage", doc, FALSE)
        ELSE IF ~Truthy(a.match)
        THEN Ended("usage", "usage", doc, FALSE)
        ELSE IF a.create /\ (~Truthy(a.home) \/ ~Truthy(a.away))
        THEN Ended("usage", "usage", doc, FALSE)
        ELSE IF ~sv.ok THEN Ended("reported", "ValueError", doc, FALSE)
        ELSE IF ~r.ok THEN Ended("reported", r.err, doc, FALSE)
        ELSE Ended("done", "", r.doc, ~a.no_build)

\* update_match.main: --division, --group and --match are required flags,
\* nothing is caught
um_main(doc, a) ==
    LET sv == SetsValue(a, um_parse_sets(a.sets_text[1]))
        r == um_update_match(doc, UpdateArgsOf(a, sv.sets))
    IN  IF a.division = None \/ a.group = None \/ a.match = None
        THEN Ended("usage", "usage", doc, FALSE)
        ELSE IF ~sv.ok THEN Ended("traceback", "ValueError", doc, FALSE)
        ELSE IF ~r.ok THEN Ended("traceback", r.err, doc, FALSE)
        ELSE Ended("done", "", r.doc, ~a.no_build)

----------------------------------------------------------------------------
(* The interactive mode of manage_matches.py: the prompts.  A typed line is  *)
(* a string, taken as already stripped; a prompt answers "again" when it     *)
(* asks once more, "abort" when it raises UserAbort, else the value it       *)
(* returns.                                                                  *)

Ordinals == [x \in {"1", "2", "3"} |-> IF x = "1" THEN 1 ELSE IF x = "2" THEN 2 ELSE 3]

\* raw.isdigit() and 1 <= int(raw) <= n: the index typed, else 0
IndexTyped(raw, n) ==
    IF raw \in DOMAIN Ordinals /\ Ordinals[raw] <= n THEN Ordinals[raw] ELSE 0

\* raw.lower() of the lines typed
Lower(raw) == IF raw = "Q" THEN "q" ELSE raw

Again == [kind |-> "again"]
Abort == [kind |-> "abort"]
Return(v) == [kind |-> "return", value |-> v]

\* prompt_choice over the ids of the options: q, quit, exit abort; a number in
\* range or an id picks; anything else asks again
prompt_choice(ids, raw) ==
    IF ids = <<>> THEN Abort
    ELSE IF raw = "" THEN Again
    ELSE IF Lower(raw) \in {"q", "quit", "exit"} THEN Abort
    ELSE IF IndexTyped(raw, Len(ids)) > 0 THEN Return(IndexTyped(raw, Len(ids)))
    ELSE IF \E i \in DOMAIN ids : ids[i] = raw
    THEN Return(CHOOSE i \in DOMAIN ids : ids[i] = raw /\ \A j \in 1..(i - 1) : ids[j] # raw)
    ELSE Again

\* collect_divisions: the ids of the division directories, in name order
collect_divisions == <<"gold">>

\* collect_groups: the listed groups whose file is there, then the files of
\* groups/ whose id was not seen
collect_groups(doc) ==
    LET listed == SelectSeq(MetaGroups, LAMBDA e : e.file \in FilesInGroupsDir)
        seen == {listed[i].id : i \in DOMAIN listed}
    IN  [i \in DOMAIN listed |-> listed[i].id]
        \o (IF doc.id \in seen THEN <<>> ELSE <<doc.id>>)

\* the ids choose_match offers
MatchOptions(doc) == [i \in DOMAIN doc.matches |-> doc.matches[i].id]

\* prompt_status: Enter keeps, a number or a status name picks
prompt_status(raw) ==
    IF raw = "" THEN Return(None)
    ELSE IF IndexTyped(raw, Len(STATUS_CHOICES)) > 0
    THEN Return(Some(STATUS_CHOICES[IndexTyped(raw, Len(STATUS_CHOICES))]))
    ELSE IF raw \in Range(STATUS_CHOICES) THEN Return(Some(raw))
    ELSE Again

\* prompt_winner: Enter keeps, unless a winner is required and there is none
prompt_winner(current, required, raw) ==
    IF raw = "" THEN IF required /\ ~Truthy(current) THEN Again ELSE Return(None)
    ELSE IF IndexTyped(raw, Len(WINNER_CHOICES)) > 0
    THEN Return(Some(WINNER_CHOICES[IndexTyped(raw, Len(WINNER_CHOICES))]))
    ELSE IF raw \in Range(WINNER_CHOICES) THEN Return(Some(raw))
    ELSE Again

\* prompt_sets: Enter keeps, '-' removes, a score list is parsed, a list that
\* does not parse is asked for again; raw is a sequence of characters
prompt_sets(existing, required, raw) ==
    LET line == Strip(raw)
    IN  IF line = <<>>
        THEN IF required /\ sets_to_string(existing) = <<>> THEN Again ELSE Return(None)
        ELSE IF line = <<"-">> THEN Return(Some(<<>>))
        ELSE IF parse_sets(line).ok THEN Return(Some(parse_sets(line).sets))
        ELSE Again

\* the lines of ten characters with two hyphens among those typed
DateShaped == {"2025-10-31"}

\* prompt_date: Enter keeps, '-' removes
prompt_date(raw) ==
    IF raw = "" THEN Return(None)
    ELSE IF raw = "-" THEN Return(Some(""))
    ELSE IF raw \in DateShaped THEN Return(Some(raw))
    ELSE Again

\* prompt_round: Enter keeps, digits give the number
prompt_round(current, required, raw) ==
    IF raw = "" THEN IF required /\ current = None THEN Again ELSE Return(None)
    ELSE IF raw \in DOMAIN Ordinals THEN Return(Some(Ordinals[raw]))
    ELSE Again

\* prompt_reason: asked once
prompt_reason(raw) ==
    IF raw = "" THEN Return(None)
    ELSE IF raw = "-" THEN Return(Some(""))
    ELSE Return(Some(raw))

\* the id interactive_create proposes: the group id and the next number
DefaultIds == <<"gold-01-001", "gold-01-002", "gold-01-003">>

\* prompt_new_id: Enter takes the proposal; an id in use is asked for again
prompt_new_id(default, existing_ids, raw) ==
    LET value == IF raw = "" THEN default ELSE raw
    IN  IF value = "" THEN Again
        ELSE IF value \in existing_ids THEN Again
        ELSE Return(value)

\* prompt_team: a number or a name of the group's teams gives the team id,
\* any other text is taken as it is
prompt_team(teams, raw) ==
    IF raw = "" THEN Again
    ELSE IF IndexTyped(raw, Len(teams)) > 0 THEN Return(teams[IndexTyped(raw, Len(teams))].id)
    ELSE IF \E i \in DOMAIN teams : raw \in {teams[i].id, teams[i].name}
    THEN Return(teams[CHOOSE i \in DOMAIN teams :
                         /\ raw \in {teams[i].id, teams[i].name}
                         /\ \A j \in 1..(i - 1) : raw \notin {teams[j].id, teams[j].name}].id)
    ELSE Return(raw)

\* the new id interactive_update keeps: none when the line is empty or names
\* the id of another match
NewIdTyped(doc, current_id, raw) ==
    IF raw = "" THEN None
    ELSE IF raw # current_id /\ \E i \in DOMAIN doc.matches : doc.matches[i].id = raw
    THEN None
    ELSE Some(raw)

----------------------------------------------------------------------------
(* build_data.build_payload and main *)

DIVISIONS_ORDER == <<"gold", "silver", "ladies", "mix">>

\* YAML null as a value of a descriptor key
YNull == "~"

\* an order key that puts unknown ids first
OrderKeyUnknownFirst(division_id) ==
    IF \E i \in DOMAIN DIVISIONS_ORDER : DIVISIONS_ORDER[i] = division_id
    THEN (CHOOSE i \in DOMAIN DIVISIONS_ORDER : DIVISIONS_ORDER[i] = division_id) - 1
    ELSE 0

\* order_lookup.get(division_id, len(order_lookup))
OrderKey(division_id) ==
    IF \E i \in DOMAIN DIVISIONS_ORDER : DIVISIONS_ORDER[i] = division_id
    THEN (CHOOSE i \in DOMAIN DIVISIONS_ORDER : DIVISIONS_ORDER[i] = division_id) - 1
    ELSE Len(DIVISIONS_ORDER)

\* the names a directory of divisions/ can have, in the order sorted() gives them
DirNames == <<"alpha", "gold", "ladies", "mix", "silver">>

\* sorted(divisions_root.iterdir()): the entries present, by name
RECURSIVE SortedSeq(_)
SortedSeq(S) ==
    IF S = {} THEN <<>>
    ELSE LET m == CHOOSE x \in S : \A y \in S : x <= y
         IN  <<m>> \o SortedSeq(S \ {m})

\* the group files every division directory holds
GroupFiles == {"groups/a.yml", "groups/b.yml"}
LoadGroup(file) ==
    IF file = "groups/a.yml"
    THEN [id |-> "g1", label |-> "Group A", matches |-> <<>>]
    ELSE [id |-> "g2", label |-> "Group B"]

IsNullValue(d, k) == k \notin DOMAIN d \/ d[k] = YNull

\* division_meta.get('id') or division_dir.name
DivisionId(entry, name) ==
    IF IsNullValue(entry.meta[1], "id") \/ entry.meta[1]["id"] = ""
    THEN name ELSE entry.meta[1]["id"]

\* the file a group reference names, None when it names none
GroupFileOf(ref) ==
    IF "bare" \in DOMAIN ref
    THEN IF ref["bare"] = "" THEN None ELSE Some(ref["bare"])
    ELSE IF IsNullValue(ref, "file") \/ ref["file"] = "" THEN None
    ELSE Some(ref["file"])

GroupRefs(meta) == IF "groups" \in DOMAIN meta THEN meta["groups"] ELSE <<>>

\* a loop that passes over a reference whose file does not exist
MissingRefPassedOver(meta) == FALSE

\* a reference whose file does not exist: FileNotFoundError
MissingRef(meta) ==
    \E i \in DOMAIN GroupRefs(meta) :
        /\ GroupFileOf(GroupRefs(meta)[i]) # None
        /\ GroupFileOf(GroupRefs(meta)[i])[1] \notin GroupFiles

RECURSIVE LoadGroups(_)
LoadGroups(refs) ==
    IF refs = <<>> THEN <<>>
    ELSE IF GroupFileOf(refs[1]) = None THEN LoadGroups(Tail(refs))
    ELSE <<LoadGroup(GroupFileOf(refs[1])[1])>> \o LoadGroups(Tail(refs))

\* the division payload as it is appended, the sort key still in it
DivisionPayload(entry, name) ==
    LET meta == entry.meta[1]
        kept == {k \in {"id", "title", "description"} : ~IsNullValue(meta, k)}
        base == [k \in kept |-> meta[k]]
    IN  Put(Put(base, "groups", LoadGroups(GroupRefs(meta))),
            "_order", OrderKey(DivisionId(entry, name)))

\* the entries of divisions/ the loop does not skip, in scan order
Scanned(r) ==
    SelectSeq(SortedSeq(DOMAIN r.divisions),
              LAMBDA n : r.divisions[n].is_dir /\ r.divisions[n].meta # None)

\* list.sort(key=...) is stable: x goes behind every element whose key is <= its own
RECURSIVE InsertByOrder(_, _)
InsertByOrder(sorted, x) ==
    IF sorted = <<>> THEN <<x>>
    ELSE IF sorted[Len(sorted)]["_order"] <= x["_order"] THEN Append(sorted, x)
    ELSE Append(InsertByOrder(SubSeq(sorted, 1, Len(sorted) - 1), x),
                sorted[Len(sorted)])

RECURSIVE SortByOrder(_)
SortByOrder(items) ==
    IF items = <<>> THEN <<>>
    ELSE InsertByOrder(SortByOrder(SubSeq(items, 1, Len(items) - 1)),
                       items[Len(items)])

\* a sort key that reads the order without removing it
KeepOrder(item) == item

\* item.pop('_order', ...) in the sort key: the key leaves the payload
StripOrder(item) == Pop(item, "_order")

\* load_yaml(path) or {}
LoadOrEmpty(file) == IF file.doc = None THEN EmptyDict ELSE file.doc[1]

build_payload(r) ==
    LET scanned == Scanned(r)
        items == [i \in DOMAIN scanned |->
                    DivisionPayload(r.divisions[scanned[i]], DirNames[scanned[i]])]
        sorted == SortByOrder(items)
    IN  IF ~r.season.exists \/ ~r.rules.exists
        THEN [ok |-> FALSE, err |-> "FileNotFoundError"]
        ELSE IF \E i \in DOMAIN scanned : MissingRef(r.divisions[scanned[i]].meta[1])
        THEN [ok |-> FALSE, err |-> "FileNotFoundError"]
        ELSE [ok |-> TRUE, err |-> "",
              payload |-> [season |-> LoadOrEmpty(r.season),
                           rules |-> LoadOrEmpty(r.rules),
                           divisions |-> [i \in DOMAIN sorted |->
                                             StripOrder(sorted[i])]]]

\* a file opened for appending instead of writing
WriteOutputAppend(old, payload, indent) ==
    [exists |-> TRUE,
     chunks |-> old.chunks \o <<[json |-> payload, indent |-> indent, newline |-> TRUE]>>]

\* open('w'), json.dump(payload, indent=indent), write('\n')
WriteOutput(old, payload, indent) ==
    [exists |-> TRUE,
     chunks |-> <<[json |-> payload, indent |-> indent, newline |-> TRUE]>>]

\* rebuild_json: build_data.py as a child process on the data root, with its
\* default --indent; check=True raises CalledProcessError when the child fails
rebuild_json(out, r) ==
    LET b == build_payload(r)
    IN  [ok |-> b.ok,
         output |-> IF b.ok THEN WriteOutput(out, b.payload, 2) ELSE out]

\* what a run of run_interactive has collected so far
NoAnswers(no_build, out) ==
    [op |-> "interactive", no_build |-> no_build, out0 |-> out,
     division |-> "", group |-> "", action |-> "", target |-> "", match |-> "",
     new_id |-> None, status |-> None, date |-> None, round_no |-> None,
     home |-> "", away |-> "", winner |-> None, sets |-> None, reason |-> None]

\* match.get('result') or {} of the match chosen for the update
CurrentResult(doc, c) ==
    LET i == FindTarget(doc.matches, c.target)
    IN  IF i > 0 /\ "result" \in DOMAIN doc.matches[i] THEN doc.matches[i]["result"]
        ELSE EmptyDict

\* status or result.get('status') or 'scheduled'; in the create flow
\* status or 'scheduled'
StatusInView(doc, c) ==
    IF Truthy(c.status) THEN c.status[1]
    ELSE IF c.action = "update" THEN effective_status(CurrentResult(doc, c))
    ELSE "scheduled"

\* the call that ends interactive_update or interactive_create, MatchError
\* printed by run_interactive
interactive_commit(doc, c) ==
    LET r == IF c.action = "update"
             THEN update_match(doc,
                     [division |-> c.division, group |-> c.group, match |-> c.target,
                      status |-> c.status, winner |-> c.winner, sets |-> c.sets,
                      date |-> c.date, round_no |-> c.round_no, reason |-> c.reason,
                      clear_sets |-> FALSE, new_id |-> c.new_id])
             ELSE add_match(doc,
                     [division |-> c.division, group |-> c.group, match |-> c.match,
                      home |-> c.home, away |-> c.away,
                      status |-> StatusInView(doc, c), winner |-> c.winner,
                      sets |-> c.sets, date |-> c.date, round_no |-> c.round_no,
                      reason |-> c.reason])
    IN  IF r.ok THEN Ended("done", "", r.doc, ~c.no_build)
        ELSE Ended("reported", r.err, doc, FALSE)

\* an abort that saves what was collected before it lets go
AbortedAfterSave(doc, c, err) ==
    Ended("cancelled", err, interactive_commit(doc, c).doc, FALSE)

\* UserAbort or KeyboardInterrupt caught in run_interactive: a message, no more
Aborted(doc, c, err) == Ended("cancelled", err, doc, FALSE)

----------------------------------------------------------------------------
(* The values the editors are run with *)

MatchIds == {"m1", "m2"}
Set64 == <<[home |-> 6, away |-> 4]>>
Date1 == "2025-10-31"
Reason1 == "postponed"

GroupDoc(matches) ==
    [id |-> "gold-01", label |-> "Gold 1",
     teams |-> <<[id |-> "t1", name |-> "A"], [id |-> "t2", name |-> "B"]>>,
     matches |-> matches]

Match(id, result) == [id |-> id, home |-> "t1", away |-> "t2", result |-> result]

\* group files as they are hand-written: unique ids, results of every status,
\* a match without a result mapping, a result without a status
SeedMatches ==
    { <<>>,
      << Match("m1", [status |-> "scheduled"]) >>,
      << Match("m1", [status |-> "played", winner |-> "home", sets |-> Set64]),
         Put(Put(Match("m2", [status |-> "wo", winner |-> "away", reason |-> Reason1]),
                 "date", Date1), "round", 2) >>,
      << [id |-> "m2", home |-> "t2", away |-> "t1"],
         Match("m1", [reason |-> Reason1]) >>,
      << Put(Match("m2", [status |-> "played", winner |-> "away", sets |-> Set64,
                          reason |-> Reason1]), "round", 2) >> }

OptStr(S) == {None} \cup {Some(x) : x \in S}

\* --status/--winner/--sets/--clear-sets/--reason in every combination
\* (clear_sets is read only when sets is None)
ResultArgs ==
    { r \in [status : OptStr(Range(STATUS_CHOICES)),
             winner : OptStr({"away"}),
             sets : {None, Some(<<>>), Some(Set64)},
             reason : OptStr({"", Reason1}),
             clear_sets : BOOLEAN] : r.clear_sets => r.sets = None }

\* --new-id/--date/--round in every combination
MetaArgs ==
    [new_id : OptStr(MatchIds), date : OptStr({"", Date1}), round_no : {None, Some(2)}]

NoMeta == [new_id |-> None, date |-> None, round_no |-> None]

MetaResultArgs ==
    { [status |-> None, winner |-> None, sets |-> None, reason |-> None,
       clear_sets |-> FALSE],
      [status |-> Some("played"), winner |-> Some("away"), sets |-> Some(Set64),
       reason |-> Some(Reason1), clear_sets |-> FALSE],
      [status |-> Some("scheduled"), winner |-> None, sets |-> None,
       reason |-> None, clear_sets |-> FALSE] }

Target(division, grp, match) == [division |-> division, group |-> grp, match |-> match]

Targets == {Target("gold", "gold-01", m) : m \in MatchIds}

\* ids that resolve to no division directory / no group file
LostTargets ==
    {Target("silver", "gold-01", "m1"), Target("gold", "gold-02", "m1"),
     Target("gold", "gold-09", "m1")}

\* merge of two records with disjoint fields
Join(f, g) == [x \in (DOMAIN f) \cup (DOMAIN g) |-> IF x \in DOMAIN f THEN f[x] ELSE g[x]]

\* calls that change the result, calls that rename / redate, calls that find nothing
ResultCalls == {Join(Join(t, NoMeta), r) : t \in Targets, r \in ResultArgs}

UpdateCalls ==
    ResultCalls
    \cup {Join(Join(t, m), r) : t \in Targets, m \in MetaArgs, r \in MetaResultArgs}
    \cup {Join(Join(t, NoMeta), r) : t \in LostTargets, r \in MetaResultArgs}

um_UpdateCalls ==
    {Join(Join(t, NoMeta), r) : t \in Targets \cup LostTargets, r \in ResultArgs}

\* --create: every status (one of them not a status), with and without winner,
\* sets, reason (a reason only without sets); --date and --round both given or
\* both left out
AddArgs ==
    { r \in [home : {"t1"}, away : {"t2"},
             status : Range(STATUS_CHOICES) \cup {"cancelled"},
             winner : OptStr({"away"}),
             sets : {None, Some(<<>>), Some(Set64)},
             date : OptStr({Date1}),
             round_no : {None, Some(2)},
             reason : OptStr({Reason1})] :
          /\ (r.date = None) <=> (r.round_no = None)
          /\ r.reason # None => r.sets = None }

AddCalls ==
    {Join(t, r) : t \in Targets, r \in AddArgs}
    \cup {Join(t, r) : t \in LostTargets,
                        r \in {x \in AddArgs : x.sets = Some(Set64) /\ x.date = None}}

\* update_match.py with --date and --round in every combination
um_MetaCalls ==
    {Join(Join(t, m), r) : t \in Targets, m \in {x \in MetaArgs : x.new_id = None},
                           r \in MetaResultArgs}

\* --create with a third id, so that a group of two matches can grow
AddCallsWide ==
    {Join(Target("gold", "gold-01", m), r) :
        m \in MatchIds \cup {"m3"},
        r \in {x \in AddArgs : x.sets # Some(<<>>) /\ x.reason = None}}

NoCall == [op |-> "none"]
NoRet == [ok |-> TRUE, err |-> ""]
NoParse == [ok |-> TRUE, sets |-> <<>>]

\* scores of one and two digits, zero and below zero
Scores == {-12, -1, 0, 4, 6, 10}
MaxSets == 2

\* division.yml as it is found: empty; ids that are and are not in the canonical
\* list; a null description; a key of its own; bare and keyed group references,
\* one without a file; a reference to a file that is not there
Descriptors ==
    { EmptyDict,
      [id |-> "mix", title |-> "Mix", description |-> YNull,
       groups |-> <<[bare |-> "groups/b.yml"], [id |-> "g1", file |-> "groups/a.yml"]>>],
      [id |-> "junior", title |-> "Juniors", description |-> "U18", color |-> "red",
       groups |-> <<[id |-> "g3"], [id |-> "g1", file |-> "groups/a.yml"]>>],
      [id |-> YNull, title |-> "Open", groups |-> <<>>],
      [title |-> "Lost", groups |-> <<[id |-> "g9", file |-> "groups/missing.yml"]>>] }

\* what divisions/ can hold under a name: a plain file, a directory without
\* division.yml, a directory with one
Entries ==
    {[is_dir |-> FALSE, meta |-> None], [is_dir |-> TRUE, meta |-> None]}
    \cup {[is_dir |-> TRUE, meta |-> Some(d)] : d \in Descriptors}

MaxDirs == 3
DirSets == {N \in SUBSET (DOMAIN DirNames) : Cardinality(N) <= MaxDirs}

MissingFile == [exists |-> FALSE, doc |-> None]
EmptyFile == [exists |-> TRUE, doc |-> None]
SeasonFile == [exists |-> TRUE, doc |-> Some([name |-> "ERA Padel League"])]
RulesFile == [exists |-> TRUE, doc |-> Some([sets |-> "best of three"])]

Roots ==
    {[season |-> sr[1], rules |-> sr[2], divisions |-> d] :
        sr \in {<<SeasonFile, RulesFile>>, <<EmptyFile, EmptyFile>>,
                <<MissingFile, RulesFile>>, <<SeasonFile, MissingFile>>},
        d \in UNION {[N -> Entries] : N \in DirSets}}

NoFile == [exists |-> FALSE, chunks |-> <<>>]
StaleFile ==
    [exists |-> TRUE,
     chunks |-> <<[json |-> [season |-> EmptyDict, rules |-> EmptyDict,
                             divisions |-> <<>>],
                   indent |-> 2, newline |-> TRUE]>>]
Indents == {2, 4}
NoRun == [runs |-> 0, ok |-> TRUE, err |-> "", indent |-> 0, prevIndent |-> 0,
          outBefore |-> NoFile]
\* the characters of a --sets string: digits, the two separators, a blank, a
\* sign, a digit-group underscore, a letter
Alphabet == {"6", "4", "-", ",", " ", "+", "_", "x"}
MaxLen == 5
Texts == UNION {[1..n -> Alphabet] : n \in 0..MaxLen}
ScoreLists == UNION {[1..n -> [home : Scores, away : Scores]] : n \in 0..MaxSets}

\* --sets as typed: left out, a score, a token with a letter, one without hyphen
SetsTexts == {None, Some(<<"6", "-", "4">>), Some(<<"6", "-", "x">>), Some(<<"6">>)}

\* the flags of a run aimed at the group file
AimedArgv ==
    [division : {Some("gold")}, group : {Some("gold-01")}, match : OptStr(MatchIds) \ {None},
     new_id : {None, Some("m2")},
     status : {None, Some("played"), Some("scheduled")},
     winner : {None, Some("away")},
     sets_text : SetsTexts,
     date : {None}, round_no : {None}, reason : {None}, clear_sets : {FALSE},
     create : BOOLEAN, home : {Some("t1")}, away : {Some("t2")},
     no_build : BOOLEAN]

\* a complete run, and the runs that differ from it in one flag: left out, or
\* naming a division or a group that is not there
FullArgv ==
    [division |-> Some("gold"), group |-> Some("gold-01"), match |-> Some("m1"),
     new_id |-> None, status |-> Some("played"), winner |-> Some("away"),
     sets_text |-> Some(<<"6", "-", "4">>), date |-> Some(Date1), round_no |-> Some(2),
     reason |-> None, clear_sets |-> FALSE, create |-> FALSE,
     home |-> Some("t1"), away |-> Some("t2"), no_build |-> FALSE]

AstrayArgv ==
    UNION { { [f EXCEPT !.division = d] : d \in {None, Some("silver")} }
            \cup { [f EXCEPT !.group = g] : g \in {None, Some("gold-02"), Some("gold-09")} }
            \cup { [f EXCEPT !.match = None], [f EXCEPT !.home = None] }
          : f \in {FullArgv, [FullArgv EXCEPT !.create = TRUE]} }

MainArgv == AimedArgv \cup AstrayArgv \cup {FullArgv}

\* update_match.py knows neither --create nor --new-id
um_MainArgv == {a \in MainArgv : ~a.create /\ a.new_id = None}

\* the data root rebuild_json compiles: one division, its group files in
\* place, or one of them gone
GoodRoot ==
    [season |-> SeasonFile, rules |-> RulesFile,
     divisions |-> [n \in {2} |->
        [is_dir |-> TRUE,
         meta |-> Some([id |-> "gold", title |-> "Gold",
                        groups |-> <<[id |-> "g1", file |-> "groups/a.yml"]>>])]]]
BrokenRoot ==
    [season |-> SeasonFile, rules |-> RulesFile,
     divisions |-> [n \in {2} |->
        [is_dir |-> TRUE,
         meta |-> Some([id |-> "gold", title |-> "Gold",
                        groups |-> <<[id |-> "g9", file |-> "groups/missing.yml"]>>])]]]
MainRoots == {GoodRoot, BrokenRoot}

\* the lines typed at the prompts
ChoiceLines == {"", "Q", "1", "2", "gold", "gold-01", "update", "create", "m2", "zz"}
IdLines == {"", "m1", "m2"}
StatusLines == {"", "2", "wo", "scheduled", "zz"}
DateLines == {"", "-", Date1, "soon"}
RoundLines == {"", "2", "zz"}
TeamLines == {"", "1", "B", "Guests"}
WinnerLines == {"", "2", "home", "zz"}
SetsLines == {<<>>, <<"-">>, <<"6", "-", "4">>, <<"6", "-", "x">>}
ReasonLines == {"", "-", Reason1}

\* where run_interactive waits for a line
PromptPositions ==
    {"division", "group", "action", "match", "new_id", "create_id", "status",
     "date", "round", "home", "away", "winner", "sets", "reason"}

----------------------------------------------------------------------------
(* The editors: one call of update_match or add_match per run, then the      *)
(* process exits                                                            *)

StrIdle ==
    /\ setsIn = <<>>
    /\ text = <<>>
    /\ parsed = NoParse
    /\ stage = "off"

BuildIdle ==
    /\ root = [season |-> SeasonFile, rules |-> RulesFile, divisions |-> <<>>]
    /\ output = NoFile
    /\ last = NoRun

EdIdle ==
    /\ group = GroupDoc(<<>>)
    /\ pc = "idle"
    /\ call = NoCall
    /\ ret = NoRet
    /\ before = group

Init ==
    /\ group \in {GroupDoc(ms) : ms \in SeedMatches}
    /\ pc = "idle"
    /\ call = NoCall
    /\ ret = NoRet
    /\ before = group
    /\ StrIdle
    /\ BuildIdle

Finish(op, a, r) ==
    /\ group' = r.doc
    /\ call' = Put(a, "op", op)
    /\ ret' = [ok |-> r.ok, err |-> r.err]
    /\ before' = group
    /\ pc' = "done"
    /\ UNCHANGED <<strVars, buildVars>>

\* manage_matches.update_match(division, group, match, ...), to its return or
\* its MatchError
UpdateMatch ==
    /\ pc = "idle"
    /\ \E a \in UpdateCalls : Finish("update", a, update_match(group, a))

\* the same, called with the result arguments only
UpdateResult ==
    /\ pc = "idle"
    /\ \E a \in ResultCalls : Finish("update", a, update_match(group, a))

\* manage_matches.add_match(division, group, match, ...)
AddMatch ==
    /\ pc = "idle"
    /\ \E a \in AddCalls : Finish("add", a, add_match(group, a))

\* update_match.update_match(division, group, match, ...)
UmUpdateMatch ==
    /\ pc = "idle"
    /\ \E a \in um_UpdateCalls : Finish("um_update", a, um_update_match(group, a))

Exit ==
    /\ pc = "done"
    /\ pc' = "idle"
    /\ call' = NoCall
    /\ ret' = NoRet
    /\ before' = group
    /\ UNCHANGED <<group, strVars, buildVars>>

Next == UpdateMatch \/ AddMatch \/ Exit

\* the editor of manage_matches.py alone
Spec == Init /\ [][Next]_vars

NextEditors == UpdateResult \/ UmUpdateMatch \/ Exit

\* both update editors on the same group file
SpecEditors == Init /\ [][NextEditors]_vars

\* update_match.update_match called with date and round
UmUpdateMeta ==
    /\ pc = "idle"
    /\ \E a \in um_MetaCalls : Finish("um_update", a, um_update_match(group, a))

NextUpdates == UpdateMatch \/ UmUpdateMeta \/ Exit

\* the two update editors, every argument in play, no match added
SpecUpdates == Init /\ [][NextUpdates]_vars

\* manage_matches.add_match with ids enough for three matches
AddMatchWide ==
    /\ pc = "idle"
    /\ \E a \in AddCallsWide : Finish("add", a, add_match(group, a))

NextAdds == AddMatchWide \/ Exit

\* add_match alone
SpecAdds == Init /\ [][NextAdds]_vars

----------------------------------------------------------------------------
(* The command lines: a whole run of main, the rebuild of the aggregate in it *)

InitMain ==
    /\ group \in {GroupDoc(ms) : ms \in SeedMatches}
    /\ pc = "idle"
    /\ call = NoCall
    /\ ret = NoRet
    /\ before = group
    /\ StrIdle
    /\ root \in MainRoots
    /\ output \in {NoFile, StaleFile}
    /\ last = NoRun

\* the run ends as e says, unless rebuild_json is reached and fails: nothing
\* in either main catches CalledProcessError
FinishMain(op, a, e) ==
    LET rb == rebuild_json(output, root)
        failed == e.rebuild /\ ~rb.ok
    IN  /\ group' = e.doc
        /\ output' = IF e.rebuild THEN rb.output ELSE output
        /\ call' = Put(a, "op", op)
        /\ ret' = [ok |-> e.exit = "done" /\ ~failed,
                   err |-> IF failed THEN "CalledProcessError" ELSE e.err,
                   exit |-> IF failed THEN "traceback" ELSE e.exit,
                   rebuilt |-> e.rebuild]
        /\ before' = group
        /\ pc' = "done"
        /\ UNCHANGED <<strVars, root, last>>

\* python manage_matches.py --division ... [--create]
ManageMain ==
    /\ pc = "idle"
    /\ \E a \in MainArgv : FinishMain("main", a, manage_main(group, a))

\* python manage_matches.py, no argument: the aggregate is rebuilt, no more
ManageRebuild ==
    /\ pc = "idle"
    /\ FinishMain("rebuild", EmptyDict, Ended("done", "", group, TRUE))

\* python update_match.py --division ...
UmMain ==
    /\ pc = "idle"
    /\ \E a \in um_MainArgv : FinishMain("um_main", a, um_main(group, a))

NextMain == ManageMain \/ ManageRebuild \/ UmMain \/ Exit

SpecMain == InitMain /\ [][NextMain]_vars

----------------------------------------------------------------------------
(* manage_matches.py --interactive: one run of run_interactive, a step per   *)
(* line typed; the step of the last prompt carries the write and the rebuild *)

InitInteractive == InitMain

\* the run goes on to the next prompt with what it has collected
Goto(c, next) ==
    /\ call' = c
    /\ pc' = next
    /\ UNCHANGED <<group, ret, before, output, strVars, root, last>>

\* UserAbort or KeyboardInterrupt: run_interactive prints and returns
Cancel(err) == FinishMain("interactive", call, Aborted(group, call, err))

\* the last prompt has returned: update_match or add_match, then rebuild_json
Commit(c) == FinishMain("interactive", c, interactive_commit(group, c))

\* a prompt that did not return: it asks again, or UserAbort ends the run
Retry(ans) ==
    IF ans.kind = "again" THEN UNCHANGED vars ELSE Cancel("UserAbort")

\* after the status is settled: the winner for played and wo, else the reason
AfterStatus(c) ==
    IF StatusInView(group, c) \in {"played", "wo"} THEN Goto(c, "winner")
    ELSE Goto(c, "reason")

\* python manage_matches.py --interactive [--no-build]: choose_division lists
\* the divisions and asks
StartInteractive ==
    /\ pc = "idle"
    /\ \E nb \in BOOLEAN :
          /\ call' = NoAnswers(nb, output)
          /\ pc' = "division"
          /\ before' = group
          /\ UNCHANGED <<group, ret, output, strVars, root, last>>

PromptDivision ==
    /\ pc = "division"
    /\ \E raw \in ChoiceLines :
          (LET ans == prompt_choice(collect_divisions, raw)
           IN  IF ans.kind # "return" THEN Retry(ans)
               ELSE LET i == ans.value
                    IN  IF collect_groups(group) = <<>>
                         THEN Cancel("UserAbort")
                         ELSE Goto([call EXCEPT !.division = collect_divisions[i]], "group"))

PromptGroup ==
    /\ pc = "group"
    /\ \E raw \in ChoiceLines :
          (LET ans == prompt_choice(collect_groups(group), raw)
           IN  IF ans.kind # "return" THEN Retry(ans)
               ELSE LET i == ans.value
                    IN  Goto([call EXCEPT !.group = collect_groups(group)[i]], "action"))

\* choose_action, then choose_match (no matches: UserAbort) or prompt_new_id
PromptAction ==
    /\ pc = "action"
    /\ \E raw \in ChoiceLines :
          (LET ans == prompt_choice(<<"update", "create">>, raw)
           IN  IF ans.kind # "return" THEN Retry(ans)
               ELSE LET i == ans.value
                    IN  IF i = 2 THEN Goto([call EXCEPT !.action = "create"], "create_id")
                         ELSE IF MatchOptions(group) = <<>> THEN Cancel("UserAbort")
                         ELSE Goto([call EXCEPT !.action = "update"], "match"))

PromptMatch ==
    /\ pc = "match"
    /\ \E raw \in ChoiceLines :
          (LET ans == prompt_choice(MatchOptions(group), raw)
           IN  IF ans.kind # "return" THEN Retry(ans)
               ELSE LET i == ans.value
                    IN  Goto([call EXCEPT !.target = MatchOptions(group)[i]], "new_id"))

\* interactive_update: the new id, Enter keeps the current one
PromptNewId ==
    /\ pc = "new_id"
    /\ \E raw \in IdLines :
          Goto([call EXCEPT !.new_id = NewIdTyped(group, call.target, raw)], "status")

\* interactive_create: prompt_new_id
PromptCreateId ==
    /\ pc = "create_id"
    /\ \E raw \in IdLines :
          (LET ans == prompt_new_id(DefaultIds[Len(group.matches) + 1],
                            Range(MatchOptions(group)), raw)
           IN  IF ans.kind # "return" THEN Retry(ans)
               ELSE LET v == ans.value
                    IN  Goto([call EXCEPT !.match = v], "round"))

PromptStatus ==
    /\ pc = "status"
    /\ \E raw \in StatusLines :
          (LET ans == prompt_status(raw)
           IN  IF ans.kind # "return" THEN Retry(ans)
               ELSE LET v == ans.value
                    IN  IF call.action = "update"
                         THEN Goto([call EXCEPT !.status = v], "date")
                         ELSE AfterStatus([call EXCEPT !.status = v]))

PromptDate ==
    /\ pc = "date"
    /\ \E raw \in DateLines :
          (LET ans == prompt_date(raw)
           IN  IF ans.kind # "return" THEN Retry(ans)
               ELSE LET v == ans.value
                    IN  Goto([call EXCEPT !.date = v],
                              IF call.action = "update" THEN "round" ELSE "home"))

PromptRound ==
    /\ pc = "round"
    /\ \E raw \in RoundLines :
          (LET ans == prompt_round(None, FALSE, raw)
           IN  IF ans.kind # "return" THEN Retry(ans)
               ELSE LET v == ans.value
                    IN  IF call.action = "update"
                         THEN AfterStatus([call EXCEPT !.round_no = v])
                         ELSE Goto([call EXCEPT !.round_no = v], "date"))

PromptHome ==
    /\ pc = "home"
    /\ \E raw \in TeamLines :
          (LET ans == prompt_team(group.teams, raw)
           IN  IF ans.kind # "return" THEN Retry(ans)
               ELSE LET v == ans.value
                    IN  Goto([call EXCEPT !.home = v], "away"))

PromptAway ==
    /\ pc = "away"
    /\ \E raw \in TeamLines :
          (LET ans == prompt_team(group.teams, raw)
           IN  IF ans.kind # "return" THEN Retry(ans)
               ELSE LET v == ans.value
                    IN  Goto([call EXCEPT !.away = v], "status"))

\* prompt_winner, required; then the sets for played, the reason for wo
PromptWinner ==
    /\ pc = "winner"
    /\ \E raw \in WinnerLines :
          (LET ans == prompt_winner(IF call.action = "update"
                            THEN Get(CurrentResult(group, call), "winner") ELSE None,
                            TRUE, raw)
           IN  IF ans.kind # "return" THEN Retry(ans)
               ELSE LET v == ans.value
                    IN  Goto([call EXCEPT !.winner = v],
                              IF StatusInView(group, call) = "played" THEN "sets"
                                                                      ELSE "reason"))

\* prompt_sets is the last prompt of a played match
PromptSets ==
    /\ pc = "sets"
    /\ \E raw \in SetsLines :
          LET existing == IF call.action = "update" /\ "sets" \in DOMAIN CurrentResult(group, call)
                          THEN CurrentResult(group, call)["sets"] ELSE <<>>
          IN  (LET ans == prompt_sets(existing, existing = <<>>, raw)
           IN  IF ans.kind # "return" THEN Retry(ans)
               ELSE LET v == ans.value
                    IN  Commit([call EXCEPT !.sets = v]))

\* prompt_reason is the last prompt of a scheduled match and of a walkover
PromptReason ==
    /\ pc = "reason"
    /\ \E raw \in ReasonLines :
          (LET ans == prompt_reason(raw)
           IN  IF ans.kind # "return" THEN Retry(ans)
               ELSE LET v == ans.value
                    IN  Commit([call EXCEPT !.reason = v]))

\* Ctrl-C while input() waits
Interrupt ==
    /\ pc \in PromptPositions
    /\ Cancel("KeyboardInterrupt")

NextInteractive ==
    \/ StartInteractive \/ PromptDivision \/ PromptGroup \/ PromptAction
    \/ PromptMatch \/ PromptNewId \/ PromptCreateId \/ PromptStatus
    \/ PromptDate \/ PromptRound \/ PromptHome \/ PromptAway
    \/ PromptWinner \/ PromptSets \/ PromptReason \/ Interrupt

SpecInteractive == InitInteractive /\ [][NextInteractive]_vars

----------------------------------------------------------------------------
(* Set scores written out by sets_to_string and read back by parse_sets *)

InitSets ==
    /\ EdIdle
    /\ BuildIdle
    /\ setsIn \in ScoreLists
    /\ text = <<>>
    /\ parsed = NoParse
    /\ stage = "input"

SetsToString ==
    /\ stage = "input"
    /\ text' = sets_to_string(setsIn)
    /\ stage' = "text"
    /\ UNCHANGED <<edVars, buildVars, setsIn, parsed>>

ParseSets ==
    /\ stage = "text"
    /\ parsed' = parse_sets(text)
    /\ stage' = "parsed"
    /\ UNCHANGED <<edVars, buildVars, setsIn, text>>

NextSets == SetsToString \/ ParseSets

SpecSets == InitSets /\ [][NextSets]_vars

----------------------------------------------------------------------------
(* parse_sets of either editor on a --sets string as it is typed *)

InitParse ==
    /\ EdIdle
    /\ BuildIdle
    /\ setsIn = <<>>
    /\ text \in Texts
    /\ parsed = NoParse
    /\ stage = "text"

UmParseSets ==
    /\ stage = "text"
    /\ parsed' = um_parse_sets(text)
    /\ stage' = "um_parsed"
    /\ UNCHANGED <<edVars, buildVars, setsIn, text>>

NextParse == ParseSets \/ UmParseSets

SpecParse == InitParse /\ [][NextParse]_vars

----------------------------------------------------------------------------
(* build_data.py run on a data root, again and again *)

InitBuild ==
    /\ EdIdle
    /\ StrIdle
    /\ root \in Roots
    /\ output \in {NoFile, StaleFile}
    /\ last = NoRun

\* build_data.py --indent i: the payload is built, then the file is written
Compile ==
    \E i \in Indents :
        LET r == build_payload(root)
        IN  /\ output' = IF r.ok THEN WriteOutput(output, r.payload, i) ELSE output
            /\ last' = [runs |-> IF last.runs = 0 THEN 1 ELSE 2,
                        ok |-> r.ok, err |-> r.err,
                        indent |-> i, prevIndent |-> last.indent,
                        outBefore |-> output]
            /\ UNCHANGED <<edVars, strVars, root>>

NextBuild == Compile

SpecBuild == InitBuild /\ [][NextBuild]_vars

----------------------------------------------------------------------------
(* Properties of the editors *)

IsUpdate == pc = "done" /\ call.op \in {"update", "um_update"}
Found == division_exists(call.division) /\ find_group_file(call.group, before) # None

\* position of the call's target in the file as it was, and the record there
TIdx == FindTarget(before.matches, call.match)
ResultOf(m) == IF "result" \in DOMAIN m THEN m["result"] ELSE EmptyDict
OldResult == ResultOf(before.matches[TIdx])
NewResult_ == ResultOf(group.matches[TIdx])
Lacks(d, k) == k \notin DOMAIN d
Has(d, k) == k \in DOMAIN d

\* C1: an update with status=scheduled that is carried out on a played or wo
\* match leaves its result without winner and without sets, in both editors;
\* reason is gone too in update_match.py whatever --reason is, and in
\* manage_matches.py when no reason is passed
C1_ScheduledClears ==
    (IsUpdate /\ ret.ok /\ call.status = Some("scheduled")
        /\ Get(OldResult, "status") \in {Some("played"), Some("wo")})
    => /\ Lacks(NewResult_, "winner")
       /\ Lacks(NewResult_, "sets")
       /\ NewResult_["status"] = "scheduled"
       /\ (call.op = "um_update" \/ call.reason = None) => Lacks(NewResult_, "reason")

C1_Witness ==
    /\ IsUpdate /\ ret.ok /\ call.op = "um_update"
    /\ call.status = Some("scheduled") /\ call.reason = Some(Reason1)
    /\ Get(OldResult, "status") = Some("wo")
    /\ Has(OldResult, "winner") /\ Has(OldResult, "reason")
    /\ NewResult_ = [status |-> "scheduled"]

\* C2: a rename to the id of another match of the group is rejected with the
\* duplicate-id error and the group file is what it was before the call
C2_RenameCollisionRejected ==
    (pc = "done" /\ call.op = "update" /\ Found /\ TIdx # 0
        /\ Truthy(call.new_id) /\ call.new_id[1] # call.match
        /\ \E j \in DOMAIN before.matches :
              j # TIdx /\ Get(before.matches[j], "id") = call.new_id)
    => (~ret.ok /\ ret.err = "DuplicateId" /\ group = before)

C2_Witness ==
    /\ pc = "done" /\ call.op = "update" /\ ret.err = "DuplicateId"
    /\ call.date = Some(Date1) /\ call.round_no = Some(2)
    /\ call.status = Some("played") /\ call.sets = Some(Set64)
    /\ Lacks(before.matches[TIdx], "date")
    /\ group = before

IdCount(matches, id) ==
    Cardinality({i \in DOMAIN matches : Get(matches[i], "id") = Some(id)})

AddGainsOne ==
    /\ ret.ok
    /\ Len(group.matches) = Len(before.matches) + 1
    /\ IdCount(group.matches, call.match) = 1
    /\ SubSeq(group.matches, 1, Len(before.matches)) = before.matches

IsPlayedAdd == pc = "done" /\ call.op = "add" /\ Found /\ call.status = "played"

\* C3 as claimed: add_match with status=played and no sets fails and writes
\* nothing; the same call with sets=[6-4] and a new id succeeds and the group
\* gains exactly one record with that id
C3_Original ==
    IsPlayedAdd =>
       /\ ~TruthyList(call.sets) => (~ret.ok /\ group = before)
       /\ (call.sets = Some(Set64) /\ ~IdExists(before.matches, call.match))
             => AddGainsOne

\* C3 amended: the call with sets succeeds when it also names a winner
C3_PlayedNeedsSets ==
    IsPlayedAdd =>
       /\ ~TruthyList(call.sets)
             => /\ ~ret.ok /\ group = before
                /\ ~IdExists(before.matches, call.match)
                      => ret.err \in {"SetsRequired", "WinnerRequired"}
       /\ (call.sets = Some(Set64) /\ ~IdExists(before.matches, call.match)
             /\ Truthy(call.winner))
             => AddGainsOne

C3_Witness ==
    /\ IsPlayedAdd /\ call.sets = Some(Set64) /\ call.winner = Some("away")
    /\ before.matches # <<>>
    /\ AddGainsOne
    /\ group.matches[Len(group.matches)]["result"]["sets"] = Set64

\* C7: the match ids of the group file are pairwise distinct
C7_IdsUnique ==
    \A i, j \in DOMAIN group.matches :
        i # j => Get(group.matches[i], "id") # Get(group.matches[j], "id")

\* an add_match of an id the group of two matches already holds, turned down
C7_Witness ==
    /\ pc = "done" /\ call.op = "add" /\ ret.err = "DuplicateId"
    /\ Len(group.matches) = 2
    /\ IdCount(group.matches, call.match) = 1

\* the status an update is claimed to act on: the argument, else the record's
EffectiveStatus ==
    IF Truthy(call.status) THEN call.status[1] ELSE effective_status(OldResult)

\* C8 as claimed: in both editors the result is mutated by the effective status:
\* scheduled removes winner and sets, wo removes sets
C8_EffectiveStatusBranch ==
    (IsUpdate /\ ret.ok) =>
       /\ EffectiveStatus = "scheduled"
             => (Lacks(NewResult_, "winner") /\ Lacks(NewResult_, "sets"))
       /\ EffectiveStatus = "wo" => Lacks(NewResult_, "sets")

SchedClean(m) ==
    Get(ResultOf(m), "status") = Some("scheduled")
        => (Lacks(ResultOf(m), "winner") /\ Lacks(ResultOf(m), "sets"))
WoClean(m) ==
    Get(ResultOf(m), "status") = Some("wo") => Lacks(ResultOf(m), "sets")

\* C9: every scheduled match has neither winner nor sets, every wo match no sets
C9_ScheduledWoClean ==
    \A i \in DOMAIN group.matches :
        SchedClean(group.matches[i]) /\ WoClean(group.matches[i])

\* a played match with sets turned into a walkover
C9_Witness ==
    /\ pc = "done" /\ call.op = "update" /\ ret.ok
    /\ Has(OldResult, "sets") /\ Get(OldResult, "status") = Some("played")
    /\ call.status = Some("wo") /\ call.sets = Some(Set64)
    /\ Get(NewResult_, "status") = Some("wo")

Complete(m) ==
    /\ Get(ResultOf(m), "status") \in {Some("played"), Some("wo")}
          => Has(ResultOf(m), "winner")
    /\ Get(ResultOf(m), "status") = Some("played")
          => (Has(ResultOf(m), "sets") /\ ResultOf(m)["sets"] # <<>>)

AllComplete(matches) == \A i \in DOMAIN matches : Complete(matches[i])

\* C10: every played or wo match has a winner and every played match has
\* non-empty sets, after any sequence of successful update_match and add_match
\* calls on a group file that started so
C10_Original == AllComplete(group.matches)

\* the record but for the fields an update may change
Framed(m) == [k \in (DOMAIN m) \ {"id", "date", "round", "result"} |-> m[k]]

\* C16: a successful update_match of either editor leaves every match but the
\* target as it was, the number and order of the matches, the target's fields
\* other than id, date, round and result, and the group's id, label and teams
C16_UpdateFrame ==
    (IsUpdate /\ ret.ok)
    => /\ Len(group.matches) = Len(before.matches)
       /\ \A i \in DOMAIN before.matches :
             i # TIdx => group.matches[i] = before.matches[i]
       /\ Framed(group.matches[TIdx]) = Framed(before.matches[TIdx])
       /\ [group EXCEPT !.matches = <<>>] = [before EXCEPT !.matches = <<>>]

\* the second of two matches gets a date, a round and a result, the first and
\* the teams are there to be kept
C16_Witness ==
    /\ IsUpdate /\ ret.ok
    /\ Len(before.matches) = 2 /\ TIdx = 2
    /\ call.date = Some(Date1) /\ call.round_no = Some(2) /\ call.status = Some("played")
    /\ group.matches[2] # before.matches[2]
    /\ "home" \in DOMAIN group.matches[2]
    /\ group.teams # <<>>

\* C17: a successful add_match leaves the matches that were there unchanged
\* and in their order, puts the new record last, the list one longer, and
\* leaves the rest of the group document alone
C17_AddFrame ==
    (pc = "done" /\ call.op = "add" /\ ret.ok)
    => /\ Len(group.matches) = Len(before.matches) + 1
       /\ SubSeq(group.matches, 1, Len(before.matches)) = before.matches
       /\ group.matches[Len(group.matches)]["id"] = call.match
       /\ [group EXCEPT !.matches = <<>>] = [before EXCEPT !.matches = <<>>]

\* a third match added behind two that differ
C17_Witness ==
    /\ pc = "done" /\ call.op = "add" /\ ret.ok
    /\ Len(before.matches) = 2 /\ before.matches[1] # before.matches[2]
    /\ Len(group.matches) = 3
    /\ group.matches[3]["id"] = "m3"

----------------------------------------------------------------------------
(* Properties of the entry points *)

IsMain == pc = "done" /\ call.op \in {"main", "um_main"}

\* the conditions C14 names: nothing found under the division, group or match
\* id, a set score that does not parse, an id already taken
UserErrors ==
    {"DivisionNotFound", "GroupNotFound", "MatchNotFound", "DuplicateId", "ValueError"}

\* C14: in manage_matches.main and in update_match.main alike, a run that
\* meets a not-found condition, a set-score parse error or a duplicate id ends
\* with the error reported by main, never with an exception leaving main
C14_ErrorsReported ==
    (IsMain /\ ret.err \in UserErrors) => ret.exit = "reported"

IsInteractive == call.op = "interactive"

\* C15: while a run of run_interactive waits at a prompt, and after a run that
\* was left with the quit token or with Ctrl-C, the group file and the
\* aggregate are what they were when the run began, and rebuild_json was not
\* reached: the write comes only after the last prompt has returned
C15_WriteAfterPrompts ==
    (IsInteractive /\ (pc \in PromptPositions \/ (pc = "done" /\ ret.exit = "cancelled")))
    => /\ group = before
       /\ output = call.out0
       /\ pc = "done" => ~ret.rebuilt

\* an update entered down to the winner of a walkover (new id, status, date),
\* then Ctrl-C at the last prompt, the rebuild not switched off
C15_Witness ==
    /\ IsInteractive /\ pc = "done" /\ ret.exit = "cancelled"
    /\ ret.err = "KeyboardInterrupt"
    /\ call.action = "update" /\ call.new_id = Some("m2") /\ call.status = Some("wo")
    /\ call.date = Some(Date1) /\ call.winner = Some("away")
    /\ ~call.no_build

----------------------------------------------------------------------------
(* Properties of the set-score text *)

\* C4 as claimed: parse_sets(sets_to_string(x)) = x for every list x of pairs
C4_RoundTrip ==
    stage = "parsed" => (parsed.ok /\ parsed.sets = setsIn)

\* the tokens of the string: its parts between commas, blanks around them
\* dropped, the parts that are all blank left out
Tokens ==
    SelectSeq([i \in DOMAIN Split(text, ",") |-> Strip(Split(text, ",")[i])],
              LAMBDA tok : tok # <<>>)

Hyphens(tok) == Cardinality({i \in DOMAIN tok : tok[i] = "-"})

\* exactly one hyphen, an integer on either side of it
WellFormed(tok) ==
    /\ Hyphens(tok) = 1
    /\ ParseInt(SubSeq(tok, 1, FirstIndex(tok, "-") - 1)).ok
    /\ ParseInt(SubSeq(tok, FirstIndex(tok, "-") + 1, Len(tok))).ok

PairOf(tok) ==
    [home |-> ParseInt(SubSeq(tok, 1, FirstIndex(tok, "-") - 1)).val,
     away |-> ParseInt(SubSeq(tok, FirstIndex(tok, "-") + 1, Len(tok))).val]

\* C13: a token is accepted only with exactly one hyphen between two integers;
\* a token without a hyphen, with more than one, or with an operand that is no
\* integer fails the parse with an error naming it; an accepted string gives
\* one pair per token, in token order
C13_TokenRules ==
    (stage \in {"parsed", "um_parsed"} /\ text # <<>>)
    => IF \E i \in DOMAIN Tokens : ~WellFormed(Tokens[i])
       THEN /\ ~parsed.ok
            /\ \E i \in DOMAIN Tokens : ~WellFormed(Tokens[i]) /\ parsed.token = Tokens[i]
       ELSE /\ parsed.ok
            /\ parsed.sets = [i \in DOMAIN Tokens |-> PairOf(Tokens[i])]

----------------------------------------------------------------------------
(* Properties of the compiler *)

Built == last.runs > 0 /\ last.ok

\* the scanned entries whose resolved id is id, in scan order
WithId(id) ==
    SelectSeq(Scanned(root),
              LAMBDA n : DivisionId(root.divisions[n], DirNames[n]) = id)

\* the scanned entries whose resolved id is none of the four, in scan order
Others ==
    SelectSeq(Scanned(root),
              LAMBDA n : DivisionId(root.divisions[n], DirNames[n])
                            \notin {"gold", "silver", "ladies", "mix"})

\* gold, silver, ladies, mix, then every other id, each run in scan order
ClaimedOrder ==
    WithId("gold") \o WithId("silver") \o WithId("ladies") \o WithId("mix") \o Others

BuiltDivisions == output.chunks[1].json.divisions

\* C5: the divisions list holds the canonical ids in the order gold, silver,
\* ladies, mix, then the other ids in the order of the sorted directory names
C5_DivisionOrder ==
    Built =>
       /\ Len(BuiltDivisions) = Len(ClaimedOrder)
       /\ \A i \in DOMAIN ClaimedOrder :
             BuiltDivisions[i] =
                Pop(DivisionPayload(root.divisions[ClaimedOrder[i]],
                                    DirNames[ClaimedOrder[i]]), "_order")

\* three divisions, silver scanned after ladies and put before it, an unknown
\* id scanned first and put last
C5_Witness ==
    /\ Built
    /\ Len(BuiltDivisions) = 3
    /\ Scanned(root) # ClaimedOrder
    /\ WithId("silver") # <<>> /\ WithId("ladies") # <<>> /\ Others # <<>>
    /\ Scanned(root)[1] = ClaimedOrder[3]

\* C6: a run that follows a run with the same arguments, the sources unchanged,
\* leaves the aggregate file with the content the earlier run gave it
C6_Idempotent ==
    (last.runs = 2 /\ last.indent = last.prevIndent) => output = last.outBefore

C6_Witness ==
    /\ last.runs = 2 /\ last.indent = last.prevIndent /\ last.ok
    /\ output.exists /\ Len(output.chunks) = 1
    /\ Len(BuiltDivisions) >= 2
    /\ output = last.outBefore

Ran == last.runs > 0

\* the descriptor names a file that divisions/<name>/ does not hold
NamesAbsentFile(meta) ==
    \E i \in DOMAIN GroupRefs(meta) :
        LET f == GroupFileOf(GroupRefs(meta)[i])
        IN  f # None /\ f[1] \notin GroupFiles

\* C11: with season.yml or rules.yml missing from the data root, build_payload
\* still returns an aggregate, the missing document read as the empty mapping
C11_MissingReadAsEmpty ==
    (Ran /\ (~root.season.exists \/ ~root.rules.exists)
         /\ \A n \in DOMAIN root.divisions :
               root.divisions[n].meta # None => ~NamesAbsentFile(root.divisions[n].meta[1]))
    => /\ last.ok
       /\ output.exists
       /\ ~root.season.exists => output.chunks[1].json.season = EmptyDict
       /\ ~root.rules.exists => output.chunks[1].json.rules = EmptyDict

\* a descriptor the scan reaches names a group file that is not there
SomeRefMissing ==
    \E i \in DOMAIN Scanned(root) : NamesAbsentFile(root.divisions[Scanned(root)[i]].meta[1])

\* C12: when a group reference of a division descriptor names a file that does
\* not exist, the run ends with the missing-file error and the aggregate file
\* is as it was before the run
C12_MissingGroupAborts ==
    (Ran /\ SomeRefMissing)
    => (~last.ok /\ last.err = "FileNotFoundError" /\ output = last.outBefore)

\* two divisions are assembled before the third one names the missing file, and
\* the aggregate of an earlier day is still there
C12_Witness ==
    /\ Ran /\ ~last.ok
    /\ root.season.exists /\ root.rules.exists
    /\ Len(Scanned(root)) = 3
    /\ NamesAbsentFile(root.divisions[Scanned(root)[3]].meta[1])
    /\ ~NamesAbsentFile(root.divisions[Scanned(root)[1]].meta[1])
    /\ ~NamesAbsentFile(root.divisions[Scanned(root)[2]].meta[1])
    /\ output = StaleFile

\* the documents of the group files a descriptor names, in the order it names
\* them
DeclaredGroups(meta) ==
    LET named == SelectSeq(GroupRefs(meta), LAMBDA ref : GroupFileOf(ref) # None)
    IN  [i \in DOMAIN named |-> LoadGroup(GroupFileOf(named[i])[1])]

MetaOf(i) == root.divisions[ClaimedOrder[i]].meta[1]

\* C18: a division object of the aggregate has id, title and description
\* exactly where the descriptor gives a non-null value, always groups, the
\* loaded group documents in the declared order, and no other key
C18_DivisionKeys ==
    Built =>
       /\ Len(BuiltDivisions) = Len(ClaimedOrder)
       /\ \A i \in DOMAIN BuiltDivisions :
             LET d == BuiltDivisions[i]
             IN  /\ DOMAIN d \subseteq {"id", "title", "description", "groups"}
                 /\ \A k \in {"id", "title", "description"} :
                       /\ k \in DOMAIN d <=> (k \in DOMAIN MetaOf(i) /\ MetaOf(i)[k] # YNull)
                       /\ k \in DOMAIN d => d[k] = MetaOf(i)[k]
                 /\ "groups" \in DOMAIN d
                 /\ d["groups"] = DeclaredGroups(MetaOf(i))

\* three divisions: one descriptor with a null description and two group
\* files, one with a key of its own and a reference without a file, one empty
C18_Witness ==
    /\ Built /\ Len(BuiltDivisions) = 3
    /\ \E i \in 1..3 : /\ "description" \in DOMAIN MetaOf(i)
                        /\ "description" \notin DOMAIN BuiltDivisions[i]
                        /\ Len(BuiltDivisions[i]["groups"]) = 2
    /\ \E i \in 1..3 : /\ "color" \in DOMAIN MetaOf(i)
                        /\ Len(BuiltDivisions[i]["groups"]) = 1
    /\ \E i \in 1..3 : DOMAIN BuiltDivisions[i] = {"groups"}

====
